---- MODULE Spec2Model ----
(***************************************************************************)
(* A model of nosebook.py: the nose plugin that turns every code cell of   *)
(* a notebook into a test case, runs the cell on a kernel shared by the    *)
(* cells of the notebook, and polls the kernel's iopub channel until the   *)
(* kernel reports an error or an idle status.                              *)
(*                                                                         *)
(* The plugin's process is single threaded: wantFile, the generator        *)
(* loadTestsFromFile and runTest never overlap.  The only concurrency is   *)
(* between runTest's polling loop and the kernel process, so runTest is    *)
(* one action per call of get_msg and the kernel is three actions per      *)
(* execute request.                                                        *)
(***************************************************************************)
EXTENDS Integers, Sequences, FiniteSets, TLC

\* ------------------------------------------------------------- bounds
\* cells of the notebook on disk
MaxCells == 2
\* calls of loadTestsFromFile in one run
MaxLoads == 2
\* consecutive timed-out polls that are counted (more are possible)
MaxTimeouts == 2
\* the outputs a recorded code cell holds at most, where outputs are varied
MaxOutputs == 2

\* --------------------------------------------------------- constants
NBFORMAT_VERSION == 4

STRIP_KEYS == {"execution_count", "traceback", "prompt_number", "source"}

\* the names a run may consider, and those the default pattern
\* .*[Tt]est.*\.ipynb$ matches
Filenames == {"test_a.ipynb", "notes.ipynb"}

MatchingFilenames == {"test_a.ipynb"}

\* the sources a code cell may hold: the second raises NameError unless
\* the first has run on the same kernel
CodeSources == {"x = 1", "assert x == 1"}

\* the outputs a notebook has recorded for a code cell when it was saved
RecordedOutputs(source) ==
    IF source = "assert x == 1"
    THEN << [output_type |-> "error", ename |-> "NameError",
             evalue |-> "name 'x' is not defined", traceback |-> "Traceback"] >>
    ELSE << [output_type |-> "execute_result", execution_count |-> "1",
             data |-> "1"] >>

CodeCell(source) ==
    [cell_type |-> "code", source |-> source, outputs |-> RecordedOutputs(source)]

MarkdownCell ==
    [cell_type |-> "markdown", source |-> "# notes", outputs |-> << >>]

Cells == {CodeCell(s) : s \in CodeSources} \cup {MarkdownCell}

CellSeqs == UNION {[1..n -> Cells] : n \in 0..MaxCells}

\* what readnb returns for a file that does not parse
NbFalse == [isNotebook |-> FALSE, kernelspec |-> "", cells |-> << >>]

\* a parsed notebook; kernelspec "" is a notebook whose metadata has none
Notebooks ==
    [isNotebook : {TRUE}, kernelspec : {"", "python3"}, cells : CellSeqs]

\* the content of the file on disk: a notebook, or text reads() rejects
DiskContents == Notebooks \cup {NbFalse}

\* ----------------------------------------------------------- messages
Msg(type, state, ename, evalue, parent) ==
    [msg_type |-> type, execution_state |-> state, ename |-> ename,
     evalue |-> evalue, parent |-> parent]

\* Python's None in runTest's msg
None == Msg("None", "", "", "", 0)

NoFailure == [source |-> "", ename |-> "", evalue |-> ""]

NoRequest == [code |-> "", msg_id |-> 0]

VARIABLES
    NosebookVersion,  \* the class IPYTHON_VERSION selects at import
    filename,         \* the file the run considers
    disk,             \* its content
    want,             \* what wantFile(filename) did: "uncalled", "True", "False" or the exception
    loads,            \* the calls of loadTestsFromFile: one generator each
    tests,            \* the NoseCellTestCase objects, in construction order
    kernels,          \* the kernels started, in start order
    runTestDoc        \* NoseCellTestCase.runTest.__doc__ (one function object for the class)

vars == << NosebookVersion, filename, disk, want, loads, tests, kernels, runTestDoc >>

\* ---------------------------------------------------- pure functions
Min(a, b) == IF a < b THEN a ELSE b

testMatch(name) == name \in MatchingFilenames

\* Nosebook.readnb: False when the file does not parse, else the
\* notebook converted to NBFORMAT_VERSION
readnb(name) == IF disk.isNotebook THEN disk ELSE NbFalse

\* codeCells without its test of cell_type
codeCells_all(nb) == [i \in 1..Len(nb.cells) |-> i]

\* codeCells as if it returned at its first code cell, as wantFile's loop does
codeCells_first(nb) ==
    LET all == SelectSeq([i \in 1..Len(nb.cells) |-> i],
                         LAMBDA i : nb.cells[i].cell_type = "code")
    IN  IF all = << >> THEN << >> ELSE << all[1] >>

\* Nosebook.codeCells on a notebook (on False it raises AttributeError):
\* the cell objects it yields, each as its position in nb.cells
codeCells(nb) ==
    SelectSeq([i \in 1..Len(nb.cells) |-> i],
              LAMBDA i : nb.cells[i].cell_type = "code")

\* wantFile as if any cell of the notebook made it a test file
wantFile_anyCell(name) ==
    IF ~testMatch(name) THEN "False"
    ELSE LET nb == readnb(name) IN
         IF ~nb.isNotebook THEN "AttributeError"
         ELSE IF Len(nb.cells) > 0 THEN "True" ELSE "False"

\* Nosebook.wantFile: "True", "False", or the exception it raises
wantFile(name) ==
    IF ~testMatch(name) THEN "False"
    ELSE LET nb == readnb(name) IN
         IF ~nb.isNotebook THEN "AttributeError"
         ELSE IF Len(codeCells(nb)) > 0 THEN "True" ELSE "False"

\* NosebookTwo.newKernel: start_new_kernel(); started is what the kernel
\* library did ("ok" or the exception it raised)
NosebookTwo_newKernel(nb, started) ==
    IF started = "ok" THEN [exc |-> "", kernel_name |-> "python"]
    ELSE [exc |-> started, kernel_name |-> ""]

\* NosebookThree.newKernel: start_new_kernel(kernel_name=nb.metadata.kernelspec.name)
NosebookThree_newKernel(nb, started) ==
    IF ~nb.isNotebook \/ nb.kernelspec = ""
    THEN [exc |-> "AttributeError", kernel_name |-> ""]
    ELSE IF started = "ok" THEN [exc |-> "", kernel_name |-> nb.kernelspec]
    ELSE [exc |-> started, kernel_name |-> ""]

\* self.newKernel of the class Nosebook inherits from
newKernel(nb, started) ==
    IF NosebookVersion = "NosebookTwo" THEN NosebookTwo_newKernel(nb, started)
    ELSE NosebookThree_newKernel(nb, started)

\* NoseCellTestCase.stripKeys
stripKeys_text(d) == [key \in DOMAIN d \ (STRIP_KEYS \cup {"text"}) |-> d[key]]

stripKeys_first(d) == [key \in DOMAIN d \ {"execution_count"} |-> d[key]]

\* NoseCellTestCase.stripKeys
stripKeys(d) == [key \in DOMAIN d \ STRIP_KEYS |-> d[key]]

\* NoseCellTestCase.sanitizeCell
sanitizeCell(cell) ==
    [cell EXCEPT !.outputs = [i \in 1..Len(cell.outputs) |-> stripKeys(cell.outputs[i])]]

\* NoseCellTestCase.id
id_oneBased(name, cell_idx) == name \o "#" \o ToString(cell_idx + 1)

\* NoseCellTestCase.id
id(name, cell_idx) == name \o "#" \o ToString(cell_idx)

\* NoseCellTestCase.cellCode
cellCode(cell) == cell.source

\* shouldContinue as if no message yet were the last message
shouldContinue_noneStops(msg) ==
    IF msg = None THEN FALSE
    ELSE ~(msg.msg_type = "status" /\ msg.execution_state = "idle")

\* shouldContinue as if it looked for idle in the message's type
shouldContinue_idleType(msg) ==
    IF msg = None THEN TRUE
    ELSE ~(msg.msg_type = "idle")

\* shouldContinue as if any status message ended the cell
shouldContinue_anyStatus(msg) ==
    IF msg = None THEN TRUE
    ELSE ~(msg.msg_type = "status")

\* NoseCellTestCase.shouldContinue
shouldContinue(msg) ==
    IF msg = None THEN TRUE
    ELSE ~(msg.msg_type = "status" /\ msg.execution_state = "idle")

\* ------------------------------------------------------------- state
Init ==
    /\ NosebookVersion \in {"NosebookTwo", "NosebookThree"}
    /\ filename \in Filenames
    /\ disk \in DiskContents
    /\ want = "uncalled"
    /\ loads = << >>
    /\ tests = << >>
    /\ kernels = << >>
    /\ runTestDoc = ""

Verdicts == {"PASSED", "FAILED"}

\* runTest is on the stack: nothing else of the plugin runs
Running == \E t \in 1..Len(tests) : tests[t].state = "AWAITING_IDLE"

LoadFinished(l) ==
    /\ loads[l].gen \in {"exhausted", "raised"}
    /\ \A t \in 1..Len(tests) : tests[t].load = l => tests[t].state \in Verdicts


\* --------------------------------------------------------- the kernel
\* the kernel and client start_new_kernel returns: its shell queue of
\* execute requests, the request it works on, its namespace (is x
\* bound), the messages it has put on iopub, and how many of them the
\* client has taken off the channel
StartedKernel(name) ==
    [kernel_name |-> name, alive |-> TRUE, shell |-> << >>,
     current |-> NoRequest, phase |-> "idle", x |-> FALSE,
     emitted |-> << >>, rd |-> 0, executed |-> << >>]

\* what running code in a namespace where x is bound (or not) raises
Raises(code, x) ==
    IF code = "assert x == 1" /\ ~x
    THEN [ename |-> "NameError", evalue |-> "name 'x' is not defined"]
    ELSE [ename |-> "", evalue |-> ""]

\* the kernel takes the next execute request: status busy, execute_input
KernelBusy(k) ==
    /\ kernels[k].alive
    /\ kernels[k].phase = "idle"
    /\ kernels[k].shell # << >>
    /\ LET req == Head(kernels[k].shell) IN
       kernels' = [kernels EXCEPT ![k] = [@ EXCEPT
           !.shell = Tail(@),
           !.current = req,
           !.phase = "busy",
           !.emitted = @ \o << Msg("status", "busy", "", "", req.msg_id),
                              Msg("execute_input", "", "", "", req.msg_id) >>]]
    /\ UNCHANGED << NosebookVersion, filename, disk, want, loads, tests, runTestDoc >>

\* the kernel runs the code: an error message when it raises
KernelExecute(k) ==
    /\ kernels[k].alive
    /\ kernels[k].phase = "busy"
    /\ LET req == kernels[k].current
           err == Raises(req.code, kernels[k].x)
       IN  kernels' = [kernels EXCEPT ![k] = [@ EXCEPT
               !.phase = "ran",
               !.x = @ \/ req.code = "x = 1",
               !.executed = Append(@, req),
               !.emitted = IF err.ename = "" THEN @
                           ELSE Append(@, Msg("error", "", err.ename, err.evalue, req.msg_id))]]
    /\ UNCHANGED << NosebookVersion, filename, disk, want, loads, tests, runTestDoc >>

\* the kernel is done with the request: status idle
KernelIdle(k) ==
    /\ kernels[k].alive
    /\ kernels[k].phase = "ran"
    /\ kernels' = [kernels EXCEPT ![k] = [@ EXCEPT
           !.phase = "idle",
           !.current = NoRequest,
           !.emitted = Append(@, Msg("status", "idle", "", "", kernels[k].current.msg_id))]]
    /\ UNCHANGED << NosebookVersion, filename, disk, want, loads, tests, runTestDoc >>

\* ------------------------------------------------------ the plugin
\* discovery asks wantFile before it loads: wantFile reads the file and
\* changes nothing of the plugin, so asking first loses no behaviour
WantFile ==
    /\ want = "uncalled"
    /\ want' = wantFile(filename)
    /\ UNCHANGED << NosebookVersion, filename, disk, loads, tests, kernels, runTestDoc >>

\* a call of loadTestsFromFile: a generator, none of its body has run
LoadTestsFromFile ==
    /\ ~Running
    /\ want # "uncalled"
    /\ Len(loads) < MaxLoads
    /\ \A l \in 1..Len(loads) : LoadFinished(l)
    /\ loads' = Append(loads, [filename |-> filename, nb |-> NbFalse, kernel |-> 0,
                               gen |-> "created", cell_idx |-> 0, exc |-> ""])
    /\ UNCHANGED << NosebookVersion, filename, disk, want, tests, kernels, runTestDoc >>

\* __init__ as if the kernel were kept in one place for every document
NoseCellTestCase_firstKernel(cell, cell_idx, kernel, name, l) ==
    [load |-> l, cell |-> sanitizeCell(cell), cell_idx |-> cell_idx,
     filename |-> name, kernel |-> 1, state |-> "NOT_STARTED",
     msg |-> None, consumed |-> << >>, failure |-> NoFailure, timeouts |-> 0]

\* NoseCellTestCase.__init__
NoseCellTestCase(cell, cell_idx, kernel, name, l) ==
    [load |-> l, cell |-> sanitizeCell(cell), cell_idx |-> cell_idx,
     filename |-> name, kernel |-> kernel, state |-> "NOT_STARTED",
     msg |-> None, consumed |-> << >>, failure |-> NoFailure, timeouts |-> 0]

\* the generator as if it caught the exception, as readnb does, and returned
GeneratorRaises_swallowed(l, nb, kernel, exc) ==
    loads' = [loads EXCEPT ![l] = [@ EXCEPT
                 !.nb = nb, !.kernel = kernel, !.gen = "exhausted"]]

\* an exception leaves the generator: its caller sees it
GeneratorRaises(l, nb, kernel, exc) ==
    loads' = [loads EXCEPT ![l] = [@ EXCEPT
                 !.nb = nb, !.kernel = kernel, !.gen = "raised", !.exc = exc]]

\* the for loop of loadTestsFromFile from the code cell after cell_idx:
\* yield the next test case, or return
GeneratorLoop(l, nb, kernel) ==
    LET idx == loads[l].cell_idx IN
    IF ~nb.isNotebook
    THEN /\ GeneratorRaises(l, nb, kernel, "AttributeError")
         /\ UNCHANGED << tests, runTestDoc >>
    ELSE IF idx < Len(codeCells(nb))
    THEN LET pos  == codeCells(nb)[idx + 1]
             test == NoseCellTestCase(nb.cells[pos], idx, kernel,
                                      loads[l].filename, l)
         IN  /\ tests' = Append(tests, test)
             /\ runTestDoc' = id(test.filename, test.cell_idx)
             /\ loads' = [loads EXCEPT ![l] = [@ EXCEPT
                    !.nb = [nb EXCEPT !.cells[pos] = test.cell],
                    !.kernel = kernel,
                    !.gen = "suspended",
                    !.cell_idx = idx + 1]]
    ELSE /\ loads' = [loads EXCEPT ![l] = [@ EXCEPT
                !.nb = nb, !.kernel = kernel, !.gen = "exhausted"]]
         /\ UNCHANGED << tests, runTestDoc >>

\* the first next() of the generator: readnb, newKernel, up to the first yield
LoadFirst(l) ==
    /\ ~Running
    /\ loads[l].gen = "created"
    /\ \E started \in {"ok", "RuntimeError"} :
         LET nb == readnb(loads[l].filename)
             r  == newKernel(nb, started)
         IN  IF r.exc # ""
             THEN /\ GeneratorRaises(l, nb, 0, r.exc)
                  /\ UNCHANGED << tests, kernels, runTestDoc >>
             ELSE /\ kernels' = Append(kernels, StartedKernel(r.kernel_name))
                  /\ GeneratorLoop(l, nb, Len(kernels) + 1)
    /\ UNCHANGED << NosebookVersion, filename, disk, want >>

\* a later next() of the generator
LoadNext(l) ==
    /\ ~Running
    /\ loads[l].gen = "suspended"
    /\ GeneratorLoop(l, loads[l].nb, loads[l].kernel)
    /\ UNCHANGED << NosebookVersion, filename, disk, want, kernels >>

\* tests run one at a time, in the order the generator yielded them
NextTest(t) ==
    /\ tests[t].state = "NOT_STARTED"
    /\ \A u \in 1..(t - 1) : tests[u].state \in Verdicts

\* the state of runTest once the while condition has seen msg
AfterCheck(msg) == IF shouldContinue(msg) THEN "AWAITING_IDLE" ELSE "PASSED"

\* runTest up to the first get_msg: kernel.execute(cellCode()), msg = None
RunTestSubmit(t) ==
    /\ ~Running
    /\ NextTest(t)
    /\ kernels' = [kernels EXCEPT ![tests[t].kernel].shell =
                      Append(@, [code |-> cellCode(tests[t].cell), msg_id |-> t])]
    /\ tests' = [tests EXCEPT ![t] = [@ EXCEPT !.msg = None, !.state = AfterCheck(None)]]
    /\ UNCHANGED << NosebookVersion, filename, disk, want, loads, runTestDoc >>

\* the exception runTest raises on an error message
CellError(cell, msg) ==
    [source |-> cell.source, ename |-> msg.ename, evalue |-> msg.evalue]

\* get_msg returns the next message of the channel
RunTestGetMsg(t) ==
    /\ tests[t].state = "AWAITING_IDLE"
    /\ LET k == tests[t].kernel IN
       /\ kernels[k].rd < Len(kernels[k].emitted)
       /\ LET msg == kernels[k].emitted[kernels[k].rd + 1] IN
          /\ kernels' = [kernels EXCEPT ![k].rd = @ + 1]
          /\ tests' = [tests EXCEPT ![t] = [@ EXCEPT
                 !.msg = msg,
                 !.consumed = Append(@, msg),
                 !.timeouts = 0,
                 !.failure = IF msg.msg_type = "error"
                             THEN CellError(tests[t].cell, msg) ELSE @,
                 !.state = IF msg.msg_type = "error" THEN "FAILED"
                           ELSE AfterCheck(msg)]]
    /\ UNCHANGED << NosebookVersion, filename, disk, want, loads, runTestDoc >>

\* runTest as if it gave up after MaxTimeouts timed-out polls
AfterEmpty_deadline(test) ==
    [test EXCEPT !.timeouts = Min(@ + 1, MaxTimeouts),
                 !.state = IF test.timeouts + 1 >= MaxTimeouts THEN "FAILED"
                           ELSE AfterCheck(test.msg)]

\* the state of runTest after get_msg raised Empty: continue
AfterEmpty(test) ==
    [test EXCEPT !.timeouts = Min(@ + 1, MaxTimeouts), !.state = AfterCheck(test.msg)]

\* get_msg times out: nothing on the channel for a second
RunTestEmpty(t) ==
    /\ tests[t].state = "AWAITING_IDLE"
    /\ kernels[tests[t].kernel].rd = Len(kernels[tests[t].kernel].emitted)
    /\ tests' = [tests EXCEPT ![t] = AfterEmpty(tests[t])]
    /\ UNCHANGED << NosebookVersion, filename, disk, want, loads, kernels, runTestDoc >>

Next ==
    \/ WantFile
    \/ LoadTestsFromFile
    \/ \E l \in 1..Len(loads) : LoadFirst(l)
    \/ \E l \in 1..Len(loads) : LoadNext(l)
    \/ \E t \in 1..Len(tests) : RunTestSubmit(t)
    \/ \E t \in 1..Len(tests) : RunTestGetMsg(t)
    \/ \E t \in 1..Len(tests) : RunTestEmpty(t)
    \/ \E k \in 1..Len(kernels) : KernelBusy(k)
    \/ \E k \in 1..Len(kernels) : KernelExecute(k)
    \/ \E k \in 1..Len(kernels) : KernelIdle(k)

Spec == Init /\ [][Next]_vars


\* one kernel process: at most one of its three steps is enabled at a time
KernelStep(k) ==
    k <= Len(kernels) /\ (KernelBusy(k) \/ KernelExecute(k) \/ KernelIdle(k))

\* nose runs every test it was given; the blocking get_msg returns a message
\* that is on the channel; every kernel process works through its requests
Fairness ==
    /\ WF_vars(\E t \in 1..Len(tests) : RunTestSubmit(t))
    /\ WF_vars(\E t \in 1..Len(tests) : RunTestGetMsg(t))
    /\ \A k \in 1..MaxLoads : WF_vars(KernelStep(k))

FairSpec == Spec /\ Fairness


\* ------------------------------------------------------ test collection
\* nose collecting the tests of a file without running any of them: its
\* loader calls loadTestsFromFile and drains the generator into a suite,
\* so a further call starts once the generators before it have finished
CollectTestsFromFile ==
    /\ want # "uncalled"
    /\ Len(loads) < MaxLoads
    /\ \A l \in 1..Len(loads) : loads[l].gen \in {"exhausted", "raised"}
    /\ loads' = Append(loads, [filename |-> filename, nb |-> NbFalse, kernel |-> 0,
                               gen |-> "created", cell_idx |-> 0, exc |-> ""])
    /\ UNCHANGED << NosebookVersion, filename, disk, want, tests, kernels, runTestDoc >>

DiscoveryNext ==
    \/ WantFile
    \/ CollectTestsFromFile
    \/ \E l \in 1..Len(loads) : LoadFirst(l)
    \/ \E l \in 1..Len(loads) : LoadNext(l)

DiscoverySpec == Init /\ [][DiscoveryNext]_vars


\* ------------------------------------------------ recorded outputs, varied
\* output records as notebooks hold them: with none of the STRIP_KEYS
\* (stream), with one (execute_result, error), with prompt_number as
\* nbformat 3 wrote it (pyout), and with several at once
SanOutputs ==
    { [output_type |-> "stream", name |-> "stdout", text |-> "1"],
      [output_type |-> "execute_result", execution_count |-> "1", data |-> "1"],
      [output_type |-> "error", ename |-> "NameError",
       evalue |-> "name 'x' is not defined", traceback |-> "Traceback"],
      [output_type |-> "pyout", prompt_number |-> "1", text |-> "1"],
      [output_type |-> "display_data", source |-> "x", prompt_number |-> "2",
       execution_count |-> "2", data |-> "<img>"] }

SanOutputSeqs == UNION {[1..n -> SanOutputs] : n \in 0..MaxOutputs}

\* notebooks of one code cell with any of these outputs recorded
SanNotebooks ==
    { [isNotebook |-> TRUE, kernelspec |-> "python3",
       cells |-> << [cell_type |-> "code", source |-> src, outputs |-> outs] >>] :
      src \in CodeSources, outs \in SanOutputSeqs }

SanInit ==
    /\ NosebookVersion \in {"NosebookTwo", "NosebookThree"}
    /\ filename \in MatchingFilenames
    /\ disk \in SanNotebooks
    /\ want = "uncalled"
    /\ loads = << >>
    /\ tests = << >>
    /\ kernels = << >>
    /\ runTestDoc = ""

SanSpec == SanInit /\ [][Next]_vars

\* ------------------------------------------------------------ claims
TestIds == 1..Len(tests)

\* the messages the kernel of test t has emitted so far
Emitted(t) == kernels[tests[t].kernel].emitted

\* the error messages the kernel has emitted for the execution of test t's cell
ErrorsFor(t) ==
    {i \in 1..Len(Emitted(t)) :
        Emitted(t)[i].msg_type = "error" /\ Emitted(t)[i].parent = t}

IsIdle(msg) == msg.msg_type = "status" /\ msg.execution_state = "idle"

\* C1: when the kernel emits an error message for a cell's execution, that
\* cell's own test fails with the cell's source and that message's ename and
\* evalue, and no test fails on an error emitted for another cell.
C1_ErrorFailsOwnCell ==
    \A t \in TestIds :
        /\ tests[t].state \in Verdicts =>
             \A i \in ErrorsFor(t) :
                 /\ tests[t].state = "FAILED"
                 /\ tests[t].failure = [source |-> tests[t].cell.source,
                                        ename |-> Emitted(t)[i].ename,
                                        evalue |-> Emitted(t)[i].evalue]
        /\ tests[t].state = "FAILED" =>
             /\ tests[t].msg.msg_type = "error"
             /\ tests[t].msg.parent = t

\* C2: a test consumes only messages emitted for its own cell's execution,
\* and it reaches PASSED only on the idle status of its own execution.
C2_OwnIdleOnly ==
    \A t \in TestIds :
        /\ \A i \in 1..Len(tests[t].consumed) : tests[t].consumed[i].parent = t
        /\ tests[t].state = "PASSED" =>
             /\ IsIdle(tests[t].msg)
             /\ tests[t].msg.parent = t


\* every execute request kernel k has received, in order of arrival
Submitted(k) ==
    kernels[k].executed
        \o (IF kernels[k].phase = "busy" THEN << kernels[k].current >> ELSE << >>)
        \o kernels[k].shell

\* the source the document on disk holds for the cell of test t
DiskCodeCells == SelectSeq(disk.cells, LAMBDA c : c.cell_type = "code")

DocumentSource(t) == DiskCodeCells[tests[t].cell_idx + 1].source

HasVerdict(t) == t <= Len(tests) /\ tests[t].state \in Verdicts

LaterSibling(t, u) ==
    /\ t < u
    /\ u <= Len(tests)
    /\ tests[t].load = tests[u].load
    /\ tests[t].state = "FAILED"

\* a cell after a FAILED cell of its document has no verdict yet; verdicts
\* are final, so once no sibling is pending every sibling seen so far has one
SiblingPending ==
    \E t \in TestIds : \E u \in TestIds : LaterSibling(t, u) /\ ~HasVerdict(u)

C3_SessionKept ==
    \A t \in TestIds : \A u \in TestIds :
        LaterSibling(t, u) =>
            /\ tests[u].kernel = tests[t].kernel
            /\ kernels[tests[u].kernel].alive
            /\ tests[u].state # "NOT_STARTED" =>
                 \E i \in 1..Len(Submitted(tests[u].kernel)) :
                     Submitted(tests[u].kernel)[i] =
                         [code |-> DocumentSource(u), msg_id |-> u]

C4_MalformedFileSkipped ==
    (testMatch(filename) /\ ~disk.isNotebook) =>
        /\ want \in {"uncalled", "False"}
        /\ tests = << >>
        /\ kernels = << >>
        /\ \A l \in 1..Len(loads) : loads[l].gen # "raised"

\* C5: the kernel of a document is started once, before the first test of the
\* document runs, and is terminated once the last test of the document is
\* done, whatever the verdicts.
C5_KernelScopedToDocument ==
    /\ \A t \in TestIds :
         /\ tests[t].kernel = loads[tests[t].load].kernel
         /\ tests[t].kernel \in 1..Len(kernels)
    /\ \A l \in 1..Len(loads) :
         (/\ loads[l].kernel # 0
          /\ LoadFinished(l)
          /\ \E t \in TestIds : tests[t].load = l) => ~kernels[loads[l].kernel].alive


\* the calls of loadTestsFromFile that started a kernel
LoadsWithKernel == {l \in 1..Len(loads) : loads[l].kernel # 0}

\* C6: the test cases of one loadTestsFromFile call hold one and the same
\* kernel, the one kernel that call started, and the test cases of different
\* calls hold different kernels.
C6_SessionOwnership ==
    /\ \A t \in TestIds : \A u \in TestIds :
         (tests[t].load = tests[u].load) <=> (tests[t].kernel = tests[u].kernel)
    /\ \A t \in TestIds :
         /\ tests[t].kernel \in 1..Len(kernels)
         /\ tests[t].kernel = loads[tests[t].load].kernel
    /\ \A l \in LoadsWithKernel : \A m \in LoadsWithKernel :
         l # m => loads[l].kernel # loads[m].kernel
    /\ Len(kernels) = Cardinality(LoadsWithKernel)

C6_Witness ==
    \E t \in TestIds : \E u \in TestIds : \E v \in TestIds :
        /\ t # u
        /\ tests[t].load = tests[u].load
        /\ tests[v].load # tests[t].load

\* the place of test t among the tests of its loadTestsFromFile call
PlaceInLoad(t) == Cardinality({u \in 1..t : tests[u].load = tests[t].load})

\* C7: the tests of a document are yielded in document order, a cell is
\* submitted only when the tests of the cells before it have their verdicts,
\* no two tests are between submission and verdict, the session receives the
\* sources in document order, and a cell that reads x after an earlier cell
\* bound it raises nothing.
C7_DocumentOrder ==
    /\ \A t \in TestIds :
         /\ PlaceInLoad(t) <= Len(DiskCodeCells)
         /\ tests[t].cell_idx = PlaceInLoad(t) - 1
         /\ tests[t].cell.cell_type = "code"
         /\ tests[t].cell.source = DiskCodeCells[PlaceInLoad(t)].source
    /\ Cardinality({t \in TestIds : tests[t].state = "AWAITING_IDLE"}) <= 1
    /\ \A t \in TestIds : \A u \in TestIds :
         (t < u /\ tests[t].load = tests[u].load) =>
             /\ tests[u].state # "NOT_STARTED" => tests[t].state \in Verdicts
             /\ (tests[t].cell.source = "x = 1" /\ tests[u].cell.source = "assert x == 1")
                    => ErrorsFor(u) = {}
    /\ \A k \in 1..Len(kernels) : \A i \in 1..Len(Submitted(k)) :
         /\ Submitted(k)[i].msg_id \in TestIds
         /\ tests[Submitted(k)[i].msg_id].kernel = k
         /\ PlaceInLoad(Submitted(k)[i].msg_id) = i
         /\ Submitted(k)[i].code = tests[Submitted(k)[i].msg_id].cell.source

C7_Witness ==
    \E t \in TestIds : \E u \in TestIds :
        /\ t < u
        /\ tests[t].load = tests[u].load
        /\ tests[t].cell.source = "x = 1"
        /\ tests[u].cell.source = "assert x == 1"
        /\ tests[u].state = "PASSED"
        /\ kernels[tests[u].kernel].phase = "idle"
        /\ Len(kernels[tests[u].kernel].executed) = 2

\* C8: a timed-out poll leaves the test in AWAITING_IDLE with the same last
\* message, consumes nothing and submits nothing, however many timeouts came
\* before it.
C8_TimeoutIsTransparent ==
    [][\A t \in TestIds :
          (tests[t].state = "AWAITING_IDLE" /\ tests'[t].timeouts = tests[t].timeouts + 1)
              => /\ tests'[t] = [tests[t] EXCEPT !.timeouts = @ + 1]
                 /\ tests'[t].state = "AWAITING_IDLE"
                 /\ kernels' = kernels]_vars

C8_Witness ==
    \E t \in TestIds :
        /\ tests[t].state = "AWAITING_IDLE"
        /\ tests[t].timeouts = MaxTimeouts
        /\ tests[t].consumed # << >>

\* C9: a test has a verdict only after it took at least one message off the
\* channel, and a test whose first message is an idle status is PASSED on
\* that message alone.
C9_PollsBeforeVerdict ==
    \A t \in TestIds :
        /\ tests[t].state \in Verdicts => Len(tests[t].consumed) >= 1
        /\ (Len(tests[t].consumed) >= 1 /\ IsIdle(tests[t].consumed[1]))
              => /\ tests[t].state = "PASSED"
                 /\ Len(tests[t].consumed) = 1

C9_Witness ==
    \E t \in TestIds :
        /\ tests[t].state = "PASSED"
        /\ Len(tests[t].consumed) = 1
        /\ IsIdle(tests[t].consumed[1])

\* the generator of call l has run newKernel and newKernel raised
KernelStartFailed(l) == loads[l].gen # "created" /\ loads[l].kernel = 0

\* C10: when newKernel fails, loadTestsFromFile yields no test and the
\* exception of newKernel leaves the generator.
C10_KernelStartFailurePropagates ==
    \A l \in 1..Len(loads) :
        KernelStartFailed(l) =>
            /\ loads[l].gen = "raised"
            /\ loads[l].exc \in {"RuntimeError", "AttributeError"}
            /\ \A t \in TestIds : tests[t].load # l

C10_Witness ==
    \E l \in 1..Len(loads) :
        /\ KernelStartFailed(l)
        /\ loads[l].exc = "RuntimeError"
        /\ Len(DiskCodeCells) > 0


\* C11: a document that names a kernel spec gets a kernel started with that
\* name (where the installed IPython has kernel specs at all), and for a
\* document that names none newKernel still starts a kernel; the only failure
\* left is the kernel library itself failing to start one.
C11_KernelSelection ==
    \A l \in 1..Len(loads) :
        (loads[l].gen # "created" /\ loads[l].nb.isNotebook) =>
            /\ (loads[l].nb.kernelspec # "" /\ NosebookVersion = "NosebookThree") =>
                 \/ loads[l].exc = "RuntimeError"
                 \/ /\ loads[l].kernel # 0
                    /\ kernels[loads[l].kernel].kernel_name = loads[l].nb.kernelspec
            /\ loads[l].nb.kernelspec = "" =>
                 \/ loads[l].exc = "RuntimeError"
                 \/ loads[l].kernel # 0


\* decimal numerals of the code cell indexes
Decimal(n) == << "0", "1", "2", "3", "4", "5" >>[n + 1]

\* the identifier a test reports
IdOf(t) == id(tests[t].filename, tests[t].cell_idx)

\* the identifiers of the tests a load has yielded, in order
IdsOfLoad(l) ==
    LET ts == SelectSeq([t \in TestIds |-> t], LAMBDA t : tests[t].load = l)
    IN  [k \in 1..Len(ts) |-> IdOf(ts[k])]

\* C12: the k-th test yielded for a file, k from 0 over its code cells only,
\* is the k-th code cell of the file and is named <filename>#<k>; distinct
\* (file, index) pairs have distinct identifiers; two complete loads of the
\* same file yield the same identifiers.
C12_TestIdentity ==
    /\ \A t \in TestIds :
         LET k == PlaceInLoad(t) - 1 IN
         /\ IdOf(t) = loads[tests[t].load].filename \o "#" \o Decimal(k)
         /\ k < Len(DiskCodeCells)
         /\ tests[t].cell.source = DiskCodeCells[k + 1].source
    /\ \A f1, f2 \in Filenames : \A i1, i2 \in 0..MaxCells :
         id(f1, i1) = id(f2, i2) => (f1 = f2 /\ i1 = i2)
    /\ \A t, u \in TestIds :
         (tests[t].load = tests[u].load /\ t # u) => IdOf(t) # IdOf(u)
    /\ \A l1, l2 \in 1..Len(loads) :
         (loads[l1].gen = "exhausted" /\ loads[l2].gen = "exhausted")
             => IdsOfLoad(l1) = IdsOfLoad(l2)

\* a file with a markdown cell before its code cell, collected twice
C12_Witness ==
    /\ Len(loads) = 2
    /\ \A l \in 1..2 : loads[l].gen = "exhausted"
    /\ Len(disk.cells) = 2
    /\ disk.cells[1].cell_type = "markdown"
    /\ Len(tests) = 2
    /\ IdOf(1) = "test_a.ipynb#0"
    /\ IdOf(2) = "test_a.ipynb#0"


\* the tests a load has yielded, in order
TestsOfLoad(l) == SelectSeq([t \in TestIds |-> t], LAMBDA t : tests[t].load = l)

\* C13: on the document of the file, codeCells yields positions of code cells
\* only, in increasing document order, each once, and none is left out;
\* iterated again on the document a generator holds (after some of its cells
\* were made into tests) it yields the same sequence, and the tests of a
\* finished generator are exactly these cells, one each.
C13_CodeCells ==
    disk.isNotebook =>
        LET cc == codeCells(disk) IN
        /\ \A k \in 1..Len(cc) :
             /\ cc[k] \in 1..Len(disk.cells)
             /\ disk.cells[cc[k]].cell_type = "code"
             /\ \A j \in 1..(k - 1) : cc[j] < cc[k]
        /\ \A p \in 1..Len(disk.cells) :
             disk.cells[p].cell_type = "code" => \E k \in 1..Len(cc) : cc[k] = p
        /\ \A l \in 1..Len(loads) :
             /\ loads[l].gen \in {"suspended", "exhausted"}
                    => codeCells(loads[l].nb) = cc
             /\ loads[l].gen = "exhausted" =>
                    /\ Len(TestsOfLoad(l)) = Len(DiskCodeCells)
                    /\ \A k \in 1..Len(DiskCodeCells) :
                         tests[TestsOfLoad(l)[k]].cell.source = DiskCodeCells[k].source

\* a code cell followed by a markdown cell, collected to the end: one test
C13_Witness ==
    /\ Len(loads) >= 1
    /\ loads[1].gen = "exhausted"
    /\ Len(disk.cells) = 2
    /\ disk.cells[1].cell_type = "code"
    /\ disk.cells[2].cell_type = "markdown"
    /\ Len(TestsOfLoad(1)) = 1


\* C14: once a cell was made into a test, none of its outputs holds a key of
\* STRIP_KEYS, whether the recorded output held all, some or none of them,
\* and sanitizing the cell again leaves it as it is.
C14_SanitizeIdempotent ==
    \A t \in TestIds :
        /\ \A i \in 1..Len(tests[t].cell.outputs) :
             DOMAIN tests[t].cell.outputs[i] \cap STRIP_KEYS = {}
        /\ sanitizeCell(tests[t].cell) = tests[t].cell
        /\ \A i \in 1..Len(tests[t].cell.outputs) :
             stripKeys(tests[t].cell.outputs[i]) = tests[t].cell.outputs[i]

\* a test made from a cell whose first output held none of the keys and
\* whose second held three of them
C14_Witness ==
    /\ Len(tests) >= 1
    /\ Len(disk.cells[1].outputs) = 2
    /\ DOMAIN disk.cells[1].outputs[1] \cap STRIP_KEYS = {}
    /\ Cardinality(DOMAIN disk.cells[1].outputs[2] \cap STRIP_KEYS) = 3


\* the cell of the document on disk that test t was made from
DocumentCell(t) == DiskCodeCells[tests[t].cell_idx + 1]

\* C18: the cell a test holds is the cell of the document but for the keys
\* execution_count, traceback, prompt_number and source of its outputs: it
\* has the document's source and cell type, as many outputs in the same
\* order, and each output keeps every other key with its value; the code of
\* the execute request runTest sends is the document's source of the cell.
C18_SanitizeFrame ==
    \A t \in TestIds :
        LET orig == DocumentCell(t)
            cell == tests[t].cell
        IN  /\ DOMAIN cell = DOMAIN orig
            /\ cell.source = orig.source
            /\ cell.cell_type = orig.cell_type
            /\ Len(cell.outputs) = Len(orig.outputs)
            /\ \A i \in 1..Len(orig.outputs) :
                 /\ DOMAIN cell.outputs[i] = DOMAIN orig.outputs[i]
                        \ {"execution_count", "traceback", "prompt_number", "source"}
                 /\ \A key \in DOMAIN cell.outputs[i] :
                        cell.outputs[i][key] = orig.outputs[i][key]
            /\ LET sent == Submitted(tests[t].kernel) IN
               \A r \in 1..Len(sent) :
                   sent[r].msg_id = t => sent[r].code = orig.source
            /\ tests[t].state # "NOT_STARTED" =>
                   \E r \in 1..Len(Submitted(tests[t].kernel)) :
                       Submitted(tests[t].kernel)[r].msg_id = t

\* the code of a cell was sent whose first recorded output has a source key
\* of its own and whose second is a stream output
C18_Witness ==
    /\ Len(tests) >= 1
    /\ tests[1].state # "NOT_STARTED"
    /\ Len(disk.cells[1].outputs) = 2
    /\ "source" \in DOMAIN disk.cells[1].outputs[1]
    /\ disk.cells[1].outputs[2].output_type = "stream"


\* the file on disk parses and holds a code cell
HasCodeCell ==
    disk.isNotebook /\ \E p \in 1..Len(disk.cells) : disk.cells[p].cell_type = "code"

\* C15: once wantFile has been called, it returned True exactly if the name
\* matches the pattern and the parsed document has a code cell; for a
\* matching name and a document without code cells it returned False, no
\* exception; and with wantFile called and no test loading begun there is
\* no kernel.
C15_WantFile ==
    want # "uncalled" =>
        /\ want = "True" <=> (filename \in MatchingFilenames /\ HasCodeCell)
        /\ (filename \in MatchingFilenames /\ disk.isNotebook /\ ~HasCodeCell)
               => want = "False"
        /\ filename \notin MatchingFilenames => want = "False"
        /\ loads = << >> => kernels = << >>

\* wantFile returned False for a matching notebook of markdown cells only
C15_Witness ==
    /\ want = "False"
    /\ filename \in MatchingFilenames
    /\ disk.isNotebook
    /\ Len(disk.cells) = MaxCells
    /\ \A p \in 1..Len(disk.cells) : disk.cells[p].cell_type = "markdown"
    /\ kernels = << >>


\* C16: a message taken off the channel by a runner in AWAITING_IDLE is
\* classified by exactly one of three cases: an error message makes the
\* test FAILED, a status message with execution state idle makes it PASSED,
\* any other message leaves it in AWAITING_IDLE; messages are taken only in
\* AWAITING_IDLE, and a test that is PASSED or FAILED never changes again.
C16_Classification ==
    [][\A t \in TestIds :
          LET n   == Len(tests[t].consumed)
              new == tests'[t].consumed
          IN  /\ new # tests[t].consumed =>
                    /\ tests[t].state = "AWAITING_IDLE"
                    /\ Len(new) = n + 1
                    /\ new[n + 1].msg_type = "error"
                           => tests'[t].state = "FAILED"
                    /\ (new[n + 1].msg_type = "status"
                            /\ new[n + 1].execution_state = "idle")
                           => tests'[t].state = "PASSED"
                    /\ (new[n + 1].msg_type # "error"
                            /\ ~(new[n + 1].msg_type = "status"
                                    /\ new[n + 1].execution_state = "idle"))
                           => tests'[t].state = "AWAITING_IDLE"
              /\ tests[t].state \in {"PASSED", "FAILED"} => tests'[t] = tests[t]]_vars

\* a test stayed in AWAITING_IDLE over a busy status and an execute_input
\* and failed on the error message that came third
C16_Witness ==
    \E t \in TestIds :
        /\ tests[t].state = "FAILED"
        /\ Len(tests[t].consumed) = 3
        /\ tests[t].consumed[1].msg_type = "status"
        /\ tests[t].consumed[1].execution_state = "busy"
        /\ tests[t].consumed[2].msg_type = "execute_input"
        /\ tests[t].consumed[3].msg_type = "error"


\* an error message or an idle status: what ends the run of a cell
IsTerminal(msg) == msg.msg_type = "error" \/ IsIdle(msg)

\* the runner of test t polls and a terminal message is on the channel
TerminalQueued(t) ==
    /\ t <= Len(tests)
    /\ tests[t].state = "AWAITING_IDLE"
    /\ \E i \in (kernels[tests[t].kernel].rd + 1)..Len(Emitted(t)) :
           IsTerminal(Emitted(t)[i])

\* a test has a verdict only with a terminal message as the last it took
VerdictOnlyOnTerminal ==
    \A t \in TestIds :
        tests[t].state \in Verdicts
            => /\ tests[t].consumed # << >>
               /\ IsTerminal(tests[t].consumed[Len(tests[t].consumed)])

\* a runner in AWAITING_IDLE can always poll again
CanPoll ==
    \A t \in TestIds :
        tests[t].state = "AWAITING_IDLE"
            => ENABLED (RunTestGetMsg(t) \/ RunTestEmpty(t))

\* C17: a runner for which the channel holds an error or idle message
\* reaches FAILED or PASSED; a test has a verdict only if such a message was
\* delivered to it, so a runner that is never delivered one has none, and
\* while it waits it can always poll again; the only steps out of
\* AWAITING_IDLE are those that take a terminal message off the channel.
C17_Termination ==
    /\ [](VerdictOnlyOnTerminal /\ CanPoll)
    /\ [][\A t \in TestIds :
            (tests[t].state = "AWAITING_IDLE" /\ tests'[t].state # "AWAITING_IDLE")
                => /\ tests'[t].state \in Verdicts
                   /\ Len(tests'[t].consumed) = Len(tests[t].consumed) + 1
                   /\ IsTerminal(tests'[t].consumed[Len(tests'[t].consumed)])]_vars
    /\ \A t \in 1..(MaxCells * MaxLoads) : TerminalQueued(t) ~> HasVerdict(t)

\* a runner that has polled MaxTimeouts times in a row and was delivered
\* nothing yet: no verdict, still polling
C17_Witness ==
    \E t \in TestIds :
        /\ tests[t].state = "AWAITING_IDLE"
        /\ tests[t].consumed = << >>
        /\ tests[t].timeouts = MaxTimeouts
        /\ ~TerminalQueued(t)


====
